---- MODULE Spec2Model ----
(***************************************************************************)
(* Model of the backup retention command of go-backup:                     *)
(*   internal/command/delete.go  DeleteCommand.Execute / deleteFiles       *)
(*   internal/adapter/s3         List / Delete (the bucket)                *)
(* and of its backup command:                                              *)
(*   cmd/backup.go, internal/backup  Backup                                *)
(*   internal/pkg/encryption     NewEncryptor                              *)
(*   internal/adapter/s3         UploadMultiple                            *)
(* Time is counted in whole days; the zero time.Time is 0.                 *)
(***************************************************************************)
EXTENDS Integers, Sequences, FiniteSets, TLC

\* ---------------------------------------------------------------- bounds
MaxTime == 3      \* CreatedAt of a stored object ranges over 1..MaxTime
MaxTick == 1      \* time.Now() advances at most MaxTick days during a run
MaxCfg  == 2      \* max_age_days and max_count range over -1..MaxCfg

\* ------------------------------------------------------- the object store
\* A key is its sequence of path segments: "a/1" is <<"a", 1>>.
Keys == {<<"a", 1>>, <<"a", 2>>, <<"a", 3>>, <<"r">>}

SizeOf(key) ==
  CASE key = <<"a", 1>> -> 1
    [] key = <<"a", 2>> -> 2
    [] key = <<"a", 3>> -> 4
    [] OTHER            -> 8

\* the calls of Execute: the command line makes one; a second one serves to
\* compare two evaluations
RunIds == {1, 2}

VARIABLES
  objects,   \* bucket content at the start: key -> FileInfo
  store,     \* keys currently in the bucket
  clock,     \* the latest value time.Now() returned, in days
  cfg,       \* config.DeletionRules
  dryRun,    \* DeleteCommand.dryRun, per run
  pc,        \* position of each run of Execute
  files,     \* listResp.Files of each run (the listing snapshot)
  todo,      \* groups of dbFiles the range loop has not visited yet
  iter,      \* per visited group: the locals of that loop iteration
  pending,   \* part of filesToDeleteSlice deleteFiles has not reached yet
  stats,     \* *DeleteStats being built
  ret,       \* returned (*DeleteStats, error) once pc = "done"
  calls,     \* log of s3Client.Delete calls: <<key, ok>>
  listCalls, \* log of s3Client.List calls of each run: ok or not
  ctxDone,   \* whether the ctx handed to Execute has been cancelled
  appConfig,      \* config.Config as the backup command loaded it
  bpc,            \* position of the backup command
  encryptor,      \* the *Encryptor NewEncryptor returned
  attempted,      \* log of the databases Backup worked on: <<db, outcome>>
  uploadRequests, \* the []Result Backup is building, then returned
  uploadCalls,    \* log of the uploader's calls: <<key, ok>>
  berr            \* the error the backup command returned

\* the variables of the backup command
bvars == <<appConfig, bpc, encryptor, attempted, uploadRequests,
           uploadCalls, berr>>

vars == <<objects, store, clock, cfg, dryRun, pc, files, todo, iter,
          pending, stats, ret, calls, listCalls, ctxDone, bvars>>

\* ---------------------------------------------------------------- helpers
Nil == "nil"
\* a *DeleteStats is nil or points to one DeleteStats
NilStats == <<>>
Ptr(st) == <<st>>
Deref(p) == p[1]
ZeroTime == 0
IsZero(t) == t = ZeroTime
Before(t, u) == t < u
After(t, u) == t > u
AddDate(t, days) == t + days

EmptyMap == [k \in {} |-> Nil]
Put(m, file) == (file.Key :> file) @@ m
Remove(m, key) == [k \in DOMAIN m \ {key} |-> m[k]]
Values(m) == {m[k] : k \in DOMAIN m}

RECURSIVE SumSize(_)
SumSize(S) ==
  IF S = {} THEN 0
  ELSE LET f == CHOOSE x \in S : TRUE IN f.Size + SumSize(S \ {f})

\* faulty variant: every key is put in the group of the bucket root
DirRoot(key) == <<".">>

\* path.Dir of a clean relative key: the key without its last segment,
\* "." when there is no directory part.
Dir(key) ==
  IF Len(key) <= 1 THEN <<".">> ELSE SubSeq(key, 1, Len(key) - 1)

\* faulty variant: the whole listing is taken as one group (the rules are
\* applied to the bucket, not to each folder)
DbFilesWholeBucket(listing) ==
  [g \in {<<".">>} |-> listing]

\* dbFiles: group the listing by path.Dir(file.Key)
DbFiles(listing) ==
  [g \in {Dir(f.Key) : f \in listing} |-> {f \in listing : Dir(f.Key) = g}]

\* faulty variant: the comparison of the sort is reversed (oldest first)
Oldests(S) == {x \in S : \A y \in S : ~Before(y.CreatedAt, x.CreatedAt)}

\* the files of S none of which is After another: candidates for the head of
\* a newest-first order
Newests(S) == {x \in S : \A y \in S : ~After(y.CreatedAt, x.CreatedAt)}

\* sort.Slice(files, CreatedAt.After): every order of the slice that is
\* newest first; the order among equal CreatedAt is not specified.
RECURSIVE SortSlice(_)
SortSlice(S) ==
  IF S = {} THEN {<<>>}
  ELSE UNION {{<<f>> \o t : t \in SortSlice(S \ {f})} : f \in Newests(S)}

ZeroDbStats ==
  [TotalFiles |-> 0, DeletedFiles |-> 0, RetainedFiles |-> 0,
   DeletedSize |-> 0, RetainedSize |-> 0,
   OldestRetained |-> ZeroTime, NewestRetained |-> ZeroTime]

ZeroStats ==
  [TotalFiles |-> 0, DeletedFiles |-> 0, RetainedFiles |-> 0,
   DeletedSize |-> 0, RetainedSize |-> 0,
   OldestRetained |-> ZeroTime, NewestRetained |-> ZeroTime,
   DatabaseStats |-> EmptyMap]

\* ------------------------------------------------------ the two rules
EmptySets == [filesToDelete |-> EmptyMap, filesToRetain |-> EmptyMap]

\* faulty variant: a threshold of zero taken as "zero allowed"
CountRuleEnabledFromZero(rules) == rules.MaxCount >= 0

\* line 312
AgeRuleEnabled(rules) == rules.MaxAgeDays > 0

\* line 330
CountRuleEnabled(rules) == rules.MaxCount > 0

\* faulty variant: an object created exactly at the cutoff is deleted too
RECURSIVE AgeLoopInclusive(_, _, _, _)
AgeLoopInclusive(m, fs, i, cutoffTime) ==
  IF i > Len(fs) THEN m
  ELSE AgeLoopInclusive(
         IF ~After(fs[i].CreatedAt, cutoffTime)
         THEN [m EXCEPT !.filesToDelete = Put(@, fs[i])]
         ELSE [m EXCEPT !.filesToRetain = Put(@, fs[i])],
         fs, i + 1, cutoffTime)

\* faulty variant: the comparison with the cutoff is inverted
RECURSIVE AgeLoopInverted(_, _, _, _)
AgeLoopInverted(m, fs, i, cutoffTime) ==
  IF i > Len(fs) THEN m
  ELSE AgeLoopInverted(
         IF After(fs[i].CreatedAt, cutoffTime)
         THEN [m EXCEPT !.filesToDelete = Put(@, fs[i])]
         ELSE [m EXCEPT !.filesToRetain = Put(@, fs[i])],
         fs, i + 1, cutoffTime)

\* lines 314-320: the loop of the time-based rule over the sorted files
RECURSIVE AgeLoop(_, _, _, _)
AgeLoop(m, fs, i, cutoffTime) ==
  IF i > Len(fs) THEN m
  ELSE AgeLoop(
         IF Before(fs[i].CreatedAt, cutoffTime)
         THEN [m EXCEPT !.filesToDelete = Put(@, fs[i])]
         ELSE [m EXCEPT !.filesToRetain = Put(@, fs[i])],
         fs, i + 1, cutoffTime)

\* faulty variant: the count rule marks the excess without unmarking it as retained
RECURSIVE CountLoopNoUnmark(_, _, _, _)
CountLoopNoUnmark(m, fs, i, maxCount) ==
  IF i > Len(fs) THEN m
  ELSE CountLoopNoUnmark(
         IF i - 1 >= maxCount
         THEN [filesToDelete |-> Put(m.filesToDelete, fs[i]),
               filesToRetain |-> m.filesToRetain]
         ELSE [filesToRetain |-> Put(m.filesToRetain, fs[i]),
               filesToDelete |-> Remove(m.filesToDelete, fs[i].Key)],
         fs, i + 1, maxCount)

\* faulty variant: the index test is off by one, max_count - 1 files are kept
RECURSIVE CountLoopOffByOne(_, _, _, _)
CountLoopOffByOne(m, fs, i, maxCount) ==
  IF i > Len(fs) THEN m
  ELSE CountLoopOffByOne(
         IF i >= maxCount
         THEN [filesToDelete |-> Put(m.filesToDelete, fs[i]),
               filesToRetain |-> Remove(m.filesToRetain, fs[i].Key)]
         ELSE [filesToRetain |-> Put(m.filesToRetain, fs[i]),
               filesToDelete |-> Remove(m.filesToDelete, fs[i].Key)],
         fs, i + 1, maxCount)

\* lines 334-341: more files than max_count, index i is 0-based in the code
RECURSIVE CountLoop(_, _, _, _)
CountLoop(m, fs, i, maxCount) ==
  IF i > Len(fs) THEN m
  ELSE CountLoop(
         IF i - 1 >= maxCount
         THEN [filesToDelete |-> Put(m.filesToDelete, fs[i]),
               filesToRetain |-> Remove(m.filesToRetain, fs[i].Key)]
         ELSE [filesToRetain |-> Put(m.filesToRetain, fs[i]),
               filesToDelete |-> Remove(m.filesToDelete, fs[i].Key)],
         fs, i + 1, maxCount)

\* faulty variant: the files within max_count keep the mark of the age rule
RECURSIVE KeepAllLoopNoOverride(_, _, _)
KeepAllLoopNoOverride(m, fs, i) ==
  IF i > Len(fs) THEN m
  ELSE KeepAllLoopNoOverride(
         IF fs[i].Key \in DOMAIN m.filesToDelete THEN m
         ELSE [m EXCEPT !.filesToRetain = Put(@, fs[i])],
         fs, i + 1)

\* lines 345-348: no more files than max_count, keep all of them
RECURSIVE KeepAllLoop(_, _, _)
KeepAllLoop(m, fs, i) ==
  IF i > Len(fs) THEN m
  ELSE KeepAllLoop(
         [filesToRetain |-> Put(m.filesToRetain, fs[i]),
          filesToDelete |-> Remove(m.filesToDelete, fs[i].Key)],
         fs, i + 1)

\* faulty variant: the count rule is applied first and the age rule last
ClassifyAgeLast(fs, rules, now) ==
  LET m1 == IF CountRuleEnabled(rules)
            THEN IF Len(fs) > rules.MaxCount
                 THEN CountLoop(EmptySets, fs, 1, rules.MaxCount)
                 ELSE KeepAllLoop(EmptySets, fs, 1)
            ELSE EmptySets
  IN IF AgeRuleEnabled(rules)
     THEN LET m2 == AgeLoop(m1, fs, 1, AddDate(now, -rules.MaxAgeDays))
          IN [filesToDelete |-> m2.filesToDelete,
              filesToRetain |->
                [k \in DOMAIN m2.filesToRetain \ DOMAIN m2.filesToDelete |->
                   m2.filesToRetain[k]]]
     ELSE m1

\* lines 311-355: both rules applied to the sorted files of one group
Classify(fs, rules, now) ==
  LET m1 == IF AgeRuleEnabled(rules)
            THEN AgeLoop(EmptySets, fs, 1, AddDate(now, -rules.MaxAgeDays))
            ELSE EmptySets
  IN IF CountRuleEnabled(rules)
     THEN IF Len(fs) > rules.MaxCount
          THEN CountLoop(m1, fs, 1, rules.MaxCount)
          ELSE KeepAllLoop(m1, fs, 1)
     ELSE m1

\* faulty variant: the retained files are handed to deleteFiles as well
FilesToDeleteSliceAll(m) == Values(m.filesToDelete) \cup Values(m.filesToRetain)

\* lines 357-361: the slice handed to deleteFiles
FilesToDeleteSlice(m) == Values(m.filesToDelete)

\* lines 363-371: the retained files, newest first
RECURSIVE SortedValues(_)
SortedValues(S) ==
  IF S = {} THEN <<>>
  ELSE LET f == CHOOSE x \in Newests(S) : TRUE
       IN <<f>> \o SortedValues(S \ {f})

FilesToRetainSlice(m) == SortedValues(Values(m.filesToRetain))

\* lines 373-386
DbStatsOf(fs, m) ==
  LET retained == FilesToRetainSlice(m)
  IN [TotalFiles     |-> Len(fs),
      DeletedFiles   |-> Cardinality(FilesToDeleteSlice(m)),
      RetainedFiles  |-> Len(retained),
      DeletedSize    |-> SumSize(FilesToDeleteSlice(m)),
      RetainedSize   |-> SumSize(Values(m.filesToRetain)),
      OldestRetained |-> IF Len(retained) > 0
                         THEN retained[Len(retained)].CreatedAt ELSE ZeroTime,
      NewestRetained |-> IF Len(retained) > 0
                         THEN retained[1].CreatedAt ELSE ZeroTime]

\* faulty variant: the overall oldest and newest times are compared with the
\* zero time they start from
UpdateStatsNoZeroTest(st, g, dbStats, m) ==
  LET retained == FilesToRetainSlice(m)
      n == Len(retained)
  IN [TotalFiles     |-> st.TotalFiles + dbStats.TotalFiles,
      DeletedFiles   |-> st.DeletedFiles + dbStats.DeletedFiles,
      RetainedFiles  |-> st.RetainedFiles + dbStats.RetainedFiles,
      DeletedSize    |-> st.DeletedSize + dbStats.DeletedSize,
      RetainedSize   |-> st.RetainedSize + dbStats.RetainedSize,
      OldestRetained |->
        IF n > 0 /\ Before(retained[n].CreatedAt, st.OldestRetained)
        THEN retained[n].CreatedAt ELSE st.OldestRetained,
      NewestRetained |->
        IF n > 0 /\ After(retained[1].CreatedAt, st.NewestRetained)
        THEN retained[1].CreatedAt ELSE st.NewestRetained,
      DatabaseStats  |-> (g :> dbStats) @@ st.DatabaseStats]

\* faulty variant: the overall counters are assigned, not added to
UpdateStatsAssigns(st, g, dbStats, m) ==
  LET retained == FilesToRetainSlice(m)
      n == Len(retained)
  IN [TotalFiles     |-> dbStats.TotalFiles,
      DeletedFiles   |-> dbStats.DeletedFiles,
      RetainedFiles  |-> dbStats.RetainedFiles,
      DeletedSize    |-> dbStats.DeletedSize,
      RetainedSize   |-> dbStats.RetainedSize,
      OldestRetained |->
        IF n > 0 /\ (IsZero(st.OldestRetained)
                     \/ Before(retained[n].CreatedAt, st.OldestRetained))
        THEN retained[n].CreatedAt ELSE st.OldestRetained,
      NewestRetained |->
        IF n > 0 /\ (IsZero(st.NewestRetained)
                     \/ After(retained[1].CreatedAt, st.NewestRetained))
        THEN retained[1].CreatedAt ELSE st.NewestRetained,
      DatabaseStats  |-> (g :> dbStats) @@ st.DatabaseStats]

\* lines 297, 305, 388-402
UpdateStats(st, g, dbStats, m) ==
  LET retained == FilesToRetainSlice(m)
      n == Len(retained)
  IN [TotalFiles     |-> st.TotalFiles + dbStats.TotalFiles,
      DeletedFiles   |-> st.DeletedFiles + dbStats.DeletedFiles,
      RetainedFiles  |-> st.RetainedFiles + dbStats.RetainedFiles,
      DeletedSize    |-> st.DeletedSize + dbStats.DeletedSize,
      RetainedSize   |-> st.RetainedSize + dbStats.RetainedSize,
      OldestRetained |->
        IF n > 0 /\ (IsZero(st.OldestRetained)
                     \/ Before(retained[n].CreatedAt, st.OldestRetained))
        THEN retained[n].CreatedAt ELSE st.OldestRetained,
      NewestRetained |->
        IF n > 0 /\ (IsZero(st.NewestRetained)
                     \/ After(retained[1].CreatedAt, st.NewestRetained))
        THEN retained[1].CreatedAt ELSE st.NewestRetained,
      DatabaseStats  |-> (g :> dbStats) @@ st.DatabaseStats]

\* faulty variant: the dry-run flag is ignored
SkipDeleteNever(dry) == FALSE

\* faulty variant: every run is treated as a dry run
SkipDeleteAlways(dry) == TRUE

\* line 416: in dry-run mode the loop continues without calling deleteFiles
SkipDelete(dry) == dry

\* ------------------------------------------------------------------ Init
\* A backup file is named after the time it was taken, so the files of a
\* folder are created in the order of their names; a folder holds the first
\* few of its names (Execute does not look into the last segment of a key).
InNameOrder(created) ==
  \A k1, k2 \in Keys :
    (/\ Len(k1) = 2 /\ Len(k2) = 2
     /\ k1[1] = k2[1] /\ k1[2] < k2[2]
     /\ k2 \in DOMAIN created)
      => k1 \in DOMAIN created /\ created[k1] <= created[k2]

Buckets ==
  {created \in UNION {[S -> 1..MaxTime] : S \in SUBSET Keys} :
     InNameOrder(created)}

Policies ==
  [Enabled : BOOLEAN, MaxAgeDays : -1..MaxCfg, MaxCount : -1..MaxCfg]

\* the backup command is not run
BackupIdle ==
  /\ appConfig = [Encryption |-> [Enabled |-> FALSE, Key |-> <<>>],
                  DBConfigs |-> <<>>,
                  Upload |-> [Enabled |-> FALSE]]
  /\ bpc = "idle"
  /\ encryptor = Nil
  /\ attempted = <<>>
  /\ uploadRequests = <<>>
  /\ uploadCalls = <<>>
  /\ berr = Nil

\* the state when the runs in active are about to call Execute at time now;
\* the other runs never start
InitRuns(active, now) ==
  /\ BackupIdle
  /\ \E created \in Buckets :
       objects = [k \in DOMAIN created |->
                    [Key |-> k, CreatedAt |-> created[k], Size |-> SizeOf(k)]]
  /\ store = DOMAIN objects
  /\ clock = now
  /\ cfg \in Policies
  /\ dryRun \in {d \in [RunIds -> BOOLEAN] : \A r \in RunIds \ active : ~d[r]}
  /\ pc = [r \in RunIds |-> IF r \in active THEN "start" ELSE "idle"]
  /\ files = [r \in RunIds |-> {}]
  /\ todo = [r \in RunIds |-> {}]
  /\ iter = [r \in RunIds |-> EmptyMap]
  /\ pending = [r \in RunIds |-> {}]
  /\ stats = [r \in RunIds |-> ZeroStats]
  /\ ret = [r \in RunIds |-> [stats |-> NilStats, err |-> Nil]]
  /\ calls = [r \in RunIds |-> <<>>]
  /\ listCalls = [r \in RunIds |-> <<>>]
  /\ ctxDone = [r \in RunIds |-> FALSE]

\* the command line calls Execute once
Init == InitRuns({1}, MaxTime)

\* --------------------------------------------------------------- actions
\* faulty variant: a request is sent whatever the state of its context
RequestProceedsAlways(done) == TRUE

\* ListObjectsV2PagesWithContext and DeleteObjectWithContext return an error
\* without sending the request when their ctx is already cancelled
RequestProceeds(done) == ~done

\* faulty variant: the bucket is listed before the policy is looked at
ExecuteDisabledStillLists(r) ==
  /\ pc[r] = "start"
  /\ ~cfg.Enabled
  /\ listCalls' = [listCalls EXCEPT ![r] = Append(@, TRUE)]
  /\ files' = [files EXCEPT ![r] = {objects[k] : k \in store}]
  /\ pc' = [pc EXCEPT ![r] = "done"]
  /\ ret' = [ret EXCEPT ![r] = [stats |-> Ptr(stats[r]), err |-> Nil]]
  /\ UNCHANGED <<objects, store, clock, cfg, dryRun, todo, iter,
                 pending, stats, calls, ctxDone,
                 bvars>>

\* lines 269-272
ExecuteDisabled(r) ==
  /\ pc[r] = "start"
  /\ ~cfg.Enabled
  /\ pc' = [pc EXCEPT ![r] = "done"]
  /\ ret' = [ret EXCEPT ![r] = [stats |-> Ptr(stats[r]), err |-> Nil]]
  /\ UNCHANGED <<objects, store, clock, cfg, dryRun, files, todo, iter,
                 pending, stats, calls,
                 listCalls, ctxDone,
                 bvars>>

\* faulty variant: the stats built so far are returned with the List error
ListFailsReturnsStats(r) ==
  /\ pc[r] = "start"
  /\ cfg.Enabled
  /\ pc' = [pc EXCEPT ![r] = "done"]
  /\ ret' = [ret EXCEPT ![r] = [stats |-> Ptr(stats[r]), err |-> "list"]]
  /\ listCalls' = [listCalls EXCEPT ![r] = Append(@, FALSE)]
  /\ UNCHANGED <<objects, store, clock, cfg, dryRun, files, todo, iter,
                 pending, stats, calls, ctxDone,
                 bvars>>

\* lines 275-278: the List call fails
ListFails(r) ==
  /\ pc[r] = "start"
  /\ cfg.Enabled
  /\ pc' = [pc EXCEPT ![r] = "done"]
  /\ ret' = [ret EXCEPT ![r] = [stats |-> NilStats, err |-> "list"]]
  /\ listCalls' = [listCalls EXCEPT ![r] = Append(@, FALSE)]
  /\ UNCHANGED <<objects, store, clock, cfg, dryRun, files, todo, iter,
                 pending, stats, calls,
                 ctxDone,
                 bvars>>

\* faulty variant: an empty listing is reported as an error
ListSucceedsEmptyIsError(r) ==
  /\ pc[r] = "start"
  /\ cfg.Enabled
  /\ RequestProceeds(ctxDone[r])
  /\ LET listing == {objects[k] : k \in store}
     IN /\ files' = [files EXCEPT ![r] = listing]
        /\ IF listing = {}
           THEN /\ pc' = [pc EXCEPT ![r] = "done"]
                /\ ret' = [ret EXCEPT ![r] =
                             [stats |-> NilStats, err |-> "no files"]]
                /\ todo' = todo
           ELSE /\ pc' = [pc EXCEPT ![r] = "loop"]
                /\ todo' = [todo EXCEPT ![r] = DOMAIN DbFiles(listing)]
                /\ ret' = ret
  /\ listCalls' = [listCalls EXCEPT ![r] = Append(@, TRUE)]
  /\ UNCHANGED <<objects, store, clock, cfg, dryRun, iter, pending, stats,
                 calls, ctxDone,
                 bvars>>

\* lines 275-291: the List call succeeds; an empty listing returns at once
ListSucceeds(r) ==
  /\ pc[r] = "start"
  /\ cfg.Enabled
  /\ RequestProceeds(ctxDone[r])
  /\ LET listing == {objects[k] : k \in store}
     IN /\ files' = [files EXCEPT ![r] = listing]
        /\ IF listing = {}
           THEN /\ pc' = [pc EXCEPT ![r] = "done"]
                /\ ret' = [ret EXCEPT ![r] =
                             [stats |-> Ptr(stats[r]), err |-> Nil]]
                /\ todo' = todo
           ELSE /\ pc' = [pc EXCEPT ![r] = "loop"]
                /\ todo' = [todo EXCEPT ![r] = DOMAIN DbFiles(listing)]
                /\ ret' = ret
  /\ listCalls' = [listCalls EXCEPT ![r] = Append(@, TRUE)]
  /\ UNCHANGED <<objects, store, clock, cfg, dryRun, iter, pending, stats,
                 calls,
                 ctxDone,
                 bvars>>

\* line 313: time.Now() is read only when the age rule is enabled; it never
\* goes back
TimeNow(rules, last) ==
  IF AgeRuleEnabled(rules) THEN last..(MaxTime + MaxTick) ELSE {last}

\* lines 294-419: one iteration of the range over dbFiles, up to the call
\* of deleteFiles.  The map is ranged over in no specified order.
ProcessGroup(r, dbFolder) ==
  /\ pc[r] = "loop"
  /\ dbFolder \in todo[r]
  /\ \E fs \in SortSlice(DbFiles(files[r])[dbFolder]) :
     \E now \in TimeNow(cfg, clock) :
       LET m == Classify(fs, cfg, now)
           dbStats == DbStatsOf(fs, m)
       IN /\ clock' = now
          /\ iter' = [iter EXCEPT ![r] =
                        (dbFolder :> [files |-> fs, now |-> now,
                                      filesToDelete |-> m.filesToDelete,
                                      filesToRetain |-> m.filesToRetain])
                        @@ @]
          /\ stats' = [stats EXCEPT ![r] = UpdateStats(@, dbFolder, dbStats, m)]
          /\ todo' = [todo EXCEPT ![r] = @ \ {dbFolder}]
          /\ IF SkipDelete(dryRun[r]) \/ FilesToDeleteSlice(m) = {}
             THEN /\ pending' = pending
                  /\ pc' = pc
             ELSE /\ pending' = [pending EXCEPT ![r] = FilesToDeleteSlice(m)]
                  /\ pc' = [pc EXCEPT ![r] = "deleting"]
  /\ UNCHANGED <<objects, store, cfg, dryRun, files, ret, calls,
                 listCalls, ctxDone,
                 bvars>>

\* faulty variant: a file is counted in the stats again when it is removed
DeleteSucceedsCounts(r, file) ==
  /\ pc[r] = "deleting"
  /\ file \in pending[r]
  /\ RequestProceeds(ctxDone[r])
  /\ store' = store \ {file.Key}
  /\ calls' = [calls EXCEPT ![r] = Append(@, <<file.Key, TRUE>>)]
  /\ pending' = [pending EXCEPT ![r] = @ \ {file}]
  /\ pc' = [pc EXCEPT ![r] = IF pending[r] = {file} THEN "loop" ELSE "deleting"]
  /\ stats' = [stats EXCEPT ![r].DeletedFiles = @ + 1]
  /\ UNCHANGED <<objects, clock, cfg, dryRun, files, todo, iter, ret,
                 listCalls, ctxDone,
                 bvars>>

\* lines 444-459: one Delete call of deleteFiles that succeeds
DeleteSucceeds(r, file) ==
  /\ pc[r] = "deleting"
  /\ file \in pending[r]
  /\ RequestProceeds(ctxDone[r])
  /\ store' = store \ {file.Key}
  /\ calls' = [calls EXCEPT ![r] = Append(@, <<file.Key, TRUE>>)]
  /\ pending' = [pending EXCEPT ![r] = @ \ {file}]
  /\ pc' = [pc EXCEPT ![r] = IF pending[r] = {file} THEN "loop" ELSE "deleting"]
  /\ UNCHANGED <<objects, clock, cfg, dryRun, files, todo, iter, stats, ret,
                 listCalls, ctxDone,
                 bvars>>

\* faulty variant: a failed Delete is logged and deleteFiles goes on
DeleteFailsContinue(r, file) ==
  /\ pc[r] = "deleting"
  /\ file \in pending[r]
  /\ calls' = [calls EXCEPT ![r] = Append(@, <<file.Key, FALSE>>)]
  /\ pending' = [pending EXCEPT ![r] = @ \ {file}]
  /\ pc' = [pc EXCEPT ![r] = IF pending[r] = {file} THEN "loop" ELSE "deleting"]
  /\ UNCHANGED <<objects, store, clock, cfg, dryRun, files, todo, iter,
                 stats, ret,
                 listCalls, ctxDone,
                 bvars>>

\* faulty variant: the stats returned with the error count the files removed
DeleteFailsPartialStats(r, file) ==
  /\ pc[r] = "deleting"
  /\ file \in pending[r]
  /\ calls' = [calls EXCEPT ![r] = Append(@, <<file.Key, FALSE>>)]
  /\ pc' = [pc EXCEPT ![r] = "done"]
  /\ ret' = [ret EXCEPT ![r] =
               [stats |-> Ptr([stats[r] EXCEPT !.DeletedFiles =
                                 Cardinality(DOMAIN objects \ store)]),
                err |-> "delete"]]
  /\ UNCHANGED <<objects, store, clock, cfg, dryRun, files, todo, iter,
                 pending, stats, listCalls, ctxDone,
                 bvars>>

\* faulty variant: a failed Delete is attempted again
DeleteFailsRetry(r, file) ==
  /\ pc[r] = "deleting"
  /\ file \in pending[r]
  /\ Len(calls[r]) < Cardinality(Keys) + 1
  /\ calls' = [calls EXCEPT ![r] = Append(@, <<file.Key, FALSE>>)]
  /\ UNCHANGED <<objects, store, clock, cfg, dryRun, pc, files, todo, iter,
                 pending, stats, ret, listCalls, ctxDone,
                 bvars>>

\* lines 450-455 and 422-424: one Delete call fails, Execute returns
DeleteFails(r, file) ==
  /\ pc[r] = "deleting"
  /\ file \in pending[r]
  /\ calls' = [calls EXCEPT ![r] = Append(@, <<file.Key, FALSE>>)]
  /\ pc' = [pc EXCEPT ![r] = "done"]
  /\ ret' = [ret EXCEPT ![r] = [stats |-> Ptr(stats[r]), err |-> "delete"]]
  /\ UNCHANGED <<objects, store, clock, cfg, dryRun, files, todo, iter,
                 pending, stats,
                 listCalls, ctxDone,
                 bvars>>

\* lines 427-438: the loop is over
Return(r) ==
  /\ pc[r] = "loop"
  /\ todo[r] = {}
  /\ pc' = [pc EXCEPT ![r] = "done"]
  /\ ret' = [ret EXCEPT ![r] = [stats |-> Ptr(stats[r]), err |-> Nil]]
  /\ UNCHANGED <<objects, store, clock, cfg, dryRun, files, todo, iter,
                 pending, stats, calls,
                 listCalls, ctxDone,
                 bvars>>

\* one step of run r
Step(r) ==
  \/ ExecuteDisabled(r)
  \/ ListFails(r)
  \/ ListSucceeds(r)
  \/ \E g \in todo[r] : ProcessGroup(r, g)
  \/ \E f \in pending[r] : DeleteSucceeds(r, f)
  \/ \E f \in pending[r] : DeleteFails(r, f)
  \/ Return(r)

Next == \E r \in RunIds : Step(r)

\* Execute as the command line calls it: ctx is context.Background()
Spec == Init /\ [][Next]_vars

\* the caller of Execute cancels ctx while the run is under way
Cancel(r) ==
  /\ pc[r] \notin {"idle", "done"}
  /\ ~ctxDone[r]
  /\ ctxDone' = [ctxDone EXCEPT ![r] = TRUE]
  /\ UNCHANGED <<objects, store, clock, cfg, dryRun, pc, files, todo, iter,
                 pending, stats, ret, calls, listCalls, bvars>>

NextCtx ==
  \/ Next
  \/ \E r \in RunIds : Cancel(r)

\* Execute called with a context its caller may cancel
SpecCtx == Init /\ [][NextCtx]_vars

\* Execute is called in dry-run mode and, once it has returned, called again
\* in either mode: a preview followed by a second evaluation.  Both happen
\* within the last day time.Now() can return, so that they read the same time.
InitTwice == InitRuns({1, 2}, MaxTime + MaxTick) /\ dryRun[1]

NextTwice == \E r \in RunIds : (r = 1 \/ pc[1] = "done") /\ Step(r)

SpecTwice == InitTwice /\ [][NextTwice]_vars

\* ------------------------------------------------- vocabulary of the claims
Groups(r) == DOMAIN iter[r]
DeleteSet(r, g) == DOMAIN iter[r][g].filesToDelete
KeepSet(r, g) == DOMAIN iter[r][g].filesToRetain
GroupFiles(r, g) == {f \in files[r] : Dir(f.Key) = g}
Cutoff(r, g) == iter[r][g].now - cfg.MaxAgeDays
Rank(r, g, key) == CHOOSE i \in DOMAIN iter[r][g].files : iter[r][g].files[i].Key = key
ClassifiedDelete(r) == UNION {DeleteSet(r, g) : g \in Groups(r)}
ClassifiedKeep(r) == UNION {KeepSet(r, g) : g \in Groups(r)}
CallKeys(r) == {calls[r][i][1] : i \in DOMAIN calls[r]}
OkCalls(r) == {i \in DOMAIN calls[r] : calls[r][i][2]}
FailedCalls(r) == {i \in DOMAIN calls[r] : ~calls[r][i][2]}
OkKeys(r) == {calls[r][i][1] : i \in OkCalls(r)}
Removed == DOMAIN objects \ store
Returned(r) == pc[r] = "done"
Succeeded(r) == Returned(r) /\ ret[r].err = Nil
Min(a, b) == IF a < b THEN a ELSE b
Max(a, b) == IF a > b THEN a ELSE b
\* runs q and r listed the same snapshot and read the same time for every
\* group
SameSnapshot(q, r) ==
  listCalls[q] = <<TRUE>> /\ listCalls[r] = <<TRUE>> /\ files[q] = files[r]
SameTime(q, r, g) == iter[q][g].now = iter[r][g].now
SameOrder(q, r, g) == iter[q][g].files = iter[r][g].files

\* C1: every key passed to Delete was in the run's listing snapshot and is
\* classified Delete (and not Keep) by the classification of its group; every
\* object missing from the store was removed by such a call, so no object
\* classified Keep or left unclassified is ever removed.
C1_OnlyClassifiedDeleteIsRemoved ==
  /\ \A r \in RunIds : \A i \in DOMAIN calls[r] :
       LET key == calls[r][i][1]
       IN /\ \E f \in files[r] : f.Key = key
          /\ Dir(key) \in Groups(r)
          /\ key \in DeleteSet(r, Dir(key))
          /\ key \notin KeepSet(r, Dir(key))
  /\ \A key \in Removed : \E r \in RunIds : key \in OkKeys(r)

\* a live run removed an object while other objects were Keep or unclassified
C1_Witness ==
  \E r \in RunIds :
    /\ Returned(r)
    /\ OkKeys(r) # {}
    /\ \E f \in files[r] : f.Key \notin ClassifiedDelete(r) /\ f.Key \in store

\* C2: a dry run issues no Delete call; the store is what it was before.
C2_DryRunNeverDeletes ==
  /\ \A r \in RunIds : dryRun[r] => calls[r] = <<>>
  /\ (\A r \in RunIds : dryRun[r]) => store = DOMAIN objects

\* a dry run returned after classifying some object Delete
C2_Witness ==
  \E r \in RunIds :
    /\ dryRun[r]
    /\ Returned(r)
    /\ ClassifiedDelete(r) # {}

\* the keys of the first n files of a group in the order the sort gave them
Newest(r, g, n) ==
  {iter[r][g].files[i].Key : i \in 1..Min(n, Len(iter[r][g].files))}
BeyondNewest(r, g, n) ==
  {iter[r][g].files[i].Key : i \in (n + 1)..Len(iter[r][g].files)}

\* C3: with both rules enabled the classification of every group is the one
\* of the count rule alone: the max_count most recent files are Keep, all
\* others Delete, whatever their age is.
C3_CountRuleIsAuthoritative ==
  \A r \in RunIds : \A g \in Groups(r) :
    (cfg.MaxCount > 0 /\ cfg.MaxAgeDays > 0) =>
      /\ KeepSet(r, g) = Newest(r, g, cfg.MaxCount)
      /\ DeleteSet(r, g) = BeyondNewest(r, g, cfg.MaxCount)
      /\ \A f \in GroupFiles(r, g) :
           /\ (f.CreatedAt < Cutoff(r, g) /\ Rank(r, g, f.Key) <= cfg.MaxCount)
                => f.Key \in KeepSet(r, g) /\ f.Key \notin DeleteSet(r, g)
           /\ (f.CreatedAt >= Cutoff(r, g) /\ Rank(r, g, f.Key) > cfg.MaxCount)
                => f.Key \in DeleteSet(r, g) /\ f.Key \notin KeepSet(r, g)

\* both rules enabled; one file older than the cutoff is within the newest
\* max_count of its group and one file not older than the cutoff is outside
C3_Witness ==
  \E r \in RunIds :
    /\ cfg.MaxCount > 0 /\ cfg.MaxAgeDays > 0
    /\ \E g \in Groups(r) : \E f \in GroupFiles(r, g) :
         f.CreatedAt < Cutoff(r, g) /\ Rank(r, g, f.Key) <= cfg.MaxCount
    /\ \E g \in Groups(r) : \E f \in GroupFiles(r, g) :
         f.CreatedAt >= Cutoff(r, g) /\ Rank(r, g, f.Key) > cfg.MaxCount

\* C4: with only the count rule enabled a group of M files has exactly
\* max(0, M - N) files classified Delete, and the retained files are min(M, N)
\* files none of which is older than a deleted one.
C4_CountOnly ==
  \A r \in RunIds : \A g \in Groups(r) :
    (cfg.MaxCount > 0 /\ cfg.MaxAgeDays <= 0) =>
      LET M == Cardinality(GroupFiles(r, g))
          N == cfg.MaxCount
      IN /\ Cardinality(DeleteSet(r, g)) = Max(0, M - N)
         /\ Cardinality(KeepSet(r, g)) = Min(M, N)
         /\ KeepSet(r, g) \cup DeleteSet(r, g) = {f.Key : f \in GroupFiles(r, g)}
         /\ \A k \in KeepSet(r, g) : \A d \in DeleteSet(r, g) :
              objects[k].CreatedAt >= objects[d].CreatedAt
         /\ stats[r].DatabaseStats[g].DeletedFiles = Max(0, M - N)
         /\ stats[r].DatabaseStats[g].RetainedFiles = Min(M, N)

\* count rule only, a group with more files than max_count and one with fewer
C4_Witness ==
  \E r \in RunIds :
    /\ cfg.MaxCount > 1 /\ cfg.MaxAgeDays <= 0
    /\ \E g \in Groups(r) : Cardinality(GroupFiles(r, g)) > cfg.MaxCount
    /\ \E g \in Groups(r) : Cardinality(GroupFiles(r, g)) < cfg.MaxCount

\* C5: with only the age rule enabled a file is classified Delete exactly
\* when its CreatedAt is strictly before the cutoff (the time read when its
\* group is evaluated, minus max_age_days); every other file is Keep.
C5_AgeOnly ==
  \A r \in RunIds : \A g \in Groups(r) :
    (cfg.MaxAgeDays > 0 /\ cfg.MaxCount <= 0) =>
      \A f \in GroupFiles(r, g) :
        /\ f.Key \in DeleteSet(r, g) <=> f.CreatedAt < Cutoff(r, g)
        /\ f.Key \in KeepSet(r, g) <=> f.CreatedAt >= Cutoff(r, g)

\* age rule only; one file created exactly at the cutoff, one before it
C5_Witness ==
  \E r \in RunIds : \E g \in Groups(r) :
    /\ cfg.MaxAgeDays > 0 /\ cfg.MaxCount <= 0
    /\ \E f \in GroupFiles(r, g) : f.CreatedAt = Cutoff(r, g)
    /\ \E f \in GroupFiles(r, g) : f.CreatedAt < Cutoff(r, g)

C7_Partition ==
  \A r \in RunIds :
    (cfg.Enabled /\ (cfg.MaxAgeDays > 0 \/ cfg.MaxCount > 0)) =>
      /\ \A g \in Groups(r) :
           LET dbStats == stats[r].DatabaseStats[g]
           IN /\ KeepSet(r, g) \cap DeleteSet(r, g) = {}
              /\ KeepSet(r, g) \cup DeleteSet(r, g)
                   = {f.Key : f \in GroupFiles(r, g)}
              /\ dbStats.DeletedFiles = Cardinality(DeleteSet(r, g))
              /\ dbStats.RetainedFiles = Cardinality(KeepSet(r, g))
              /\ dbStats.TotalFiles = Cardinality(GroupFiles(r, g))
              /\ dbStats.TotalFiles = dbStats.DeletedFiles + dbStats.RetainedFiles
              /\ dbStats.DeletedSize + dbStats.RetainedSize
                   = SumSize(GroupFiles(r, g))
      /\ stats[r].TotalFiles = stats[r].DeletedFiles + stats[r].RetainedFiles
      /\ stats[r].DeletedSize + stats[r].RetainedSize
           = SumSize({f \in files[r] : Dir(f.Key) \in Groups(r)})
      /\ Succeeded(r) =>
           LET st == Deref(ret[r].stats)
           IN /\ st.TotalFiles = Cardinality(files[r])
              /\ st.TotalFiles = st.DeletedFiles + st.RetainedFiles
              /\ st.DeletedSize + st.RetainedSize = SumSize(files[r])

\* both rules enabled, a run returned with files kept and files to delete in
\* one group
C7_Witness ==
  \E r \in RunIds : \E g \in Groups(r) :
    /\ Succeeded(r)
    /\ cfg.MaxAgeDays > 0 /\ cfg.MaxCount > 0
    /\ KeepSet(r, g) # {} /\ DeleteSet(r, g) # {}
    /\ Cardinality(Groups(r)) > 1

\* C8: with the policy enabled and neither rule enabled, the returned stats
\* have retainedFiles = totalFiles and deletedFiles = 0, per group and in
\* aggregate.
C8_NoRuleKeepsEverything ==
  \A r \in RunIds :
    (Succeeded(r) /\ cfg.Enabled /\ cfg.MaxAgeDays <= 0 /\ cfg.MaxCount <= 0) =>
      LET st == Deref(ret[r].stats)
      IN /\ st.RetainedFiles = st.TotalFiles
         /\ st.DeletedFiles = 0
         /\ \A g \in DOMAIN st.DatabaseStats :
              /\ st.DatabaseStats[g].RetainedFiles
                   = st.DatabaseStats[g].TotalFiles
              /\ st.DatabaseStats[g].DeletedFiles = 0

\* C9: a threshold that is zero or negative disables its rule: with
\* max_count <= 0 only files older than the cutoff of an enabled age rule are
\* Delete, with max_age_days <= 0 only files beyond the newest max_count of an
\* enabled count rule are Delete, and with both <= 0 nothing is classified
\* Delete, no Delete call is issued and the store is unchanged.
C9_NonPositiveThresholdDisables ==
  \A r \in RunIds :
    /\ cfg.MaxCount <= 0 =>
         \A g \in Groups(r) : \A k \in DeleteSet(r, g) :
           cfg.MaxAgeDays > 0 /\ objects[k].CreatedAt < Cutoff(r, g)
    /\ cfg.MaxAgeDays <= 0 =>
         \A g \in Groups(r) : \A k \in DeleteSet(r, g) :
           cfg.MaxCount > 0 /\ Rank(r, g, k) > cfg.MaxCount
    /\ (cfg.MaxCount <= 0 /\ cfg.MaxAgeDays <= 0) =>
         /\ ClassifiedDelete(r) = {}
         /\ calls[r] = <<>>
         /\ store = DOMAIN objects

\* a live run over a non-empty listing returned with both thresholds zero
C9_Witness ==
  \E r \in RunIds :
    /\ Succeeded(r) /\ ~dryRun[r]
    /\ cfg.Enabled /\ cfg.MaxCount = 0 /\ cfg.MaxAgeDays = 0
    /\ Cardinality(files[r]) > 1

\* C10: a failed Delete call is the last call of its run: the run has returned
\* a non-nil error with non-nil stats, the objects removed from the store are
\* exactly those of the successful calls before it, one per call, and they
\* stay removed.
C10_FailFast ==
  /\ \A r \in RunIds : \A i \in FailedCalls(r) :
       /\ i = Len(calls[r])
       /\ Returned(r)
       /\ ret[r].err # Nil
       /\ ret[r].stats # NilStats
  /\ \A r \in RunIds : Cardinality(OkKeys(r)) = Cardinality(OkCalls(r))
  /\ Removed = UNION {OkKeys(r) : r \in RunIds}

\* the third Delete call failed with more files of the group and another
\* group still to go
C10_Witness ==
  \E r \in RunIds :
    /\ Len(calls[r]) > 1
    /\ FailedCalls(r) = {Len(calls[r])}
    /\ Cardinality(pending[r]) > 1
    /\ todo[r] # {}
    /\ Cardinality(Removed) = Len(calls[r]) - 1

\* the numbers of files an evaluation of group g of the listing can classify
\* Delete, and the totals over a set G of groups
GroupDeleteCounts(r, g) ==
  {Cardinality(DOMAIN Classify(fs, cfg, now).filesToDelete) :
     fs \in SortSlice(DbFiles(files[r])[g]), now \in TimeNow(cfg, clock)}
RECURSIVE PossibleDeleteCounts(_, _)
PossibleDeleteCounts(r, G) ==
  IF G = {} THEN {0}
  ELSE LET g == CHOOSE x \in G : TRUE
       IN {a + b : a \in GroupDeleteCounts(r, g),
                   b \in PossibleDeleteCounts(r, G \ {g})}
VisitedFiles(r) == {f \in files[r] : Dir(f.Key) \in Groups(r)}

\* C11: the stats returned with the error of a failed Delete call count the
\* whole listing: totalFiles is the size of the listing and deletedFiles the
\* number of files classified Delete over all its groups.
C11_FailureStatsCoverWholeListing ==
  \A r \in RunIds :
    ret[r].err = "delete" =>
      LET st == Deref(ret[r].stats)
      IN /\ st.TotalFiles = Cardinality(files[r])
         /\ st.DeletedFiles - Cardinality(ClassifiedDelete(r))
              \in PossibleDeleteCounts(r, todo[r])

\* C11 (amended): the stats returned with the error of a failed Delete call
\* count the groups evaluated up to and including the one of the failed call:
\* totalFiles is the number of listed files of those groups and deletedFiles
\* the number of their files classified Delete, removed or not; the groups
\* not yet evaluated have no entry.
C11_FailureStatsCoverVisitedGroups ==
  \A r \in RunIds :
    ret[r].err = "delete" =>
      LET st == Deref(ret[r].stats)
      IN /\ st.TotalFiles = Cardinality(VisitedFiles(r))
         /\ st.DeletedFiles = Cardinality(ClassifiedDelete(r))
         /\ DOMAIN st.DatabaseStats = Groups(r)
         /\ DOMAIN st.DatabaseStats \cap todo[r] = {}
         /\ \A g \in Groups(r) :
              /\ st.DatabaseStats[g].TotalFiles = Cardinality(GroupFiles(r, g))
              /\ st.DatabaseStats[g].DeletedFiles
                   = Cardinality(DeleteSet(r, g))

\* a Delete call failed after another one removed a file, with more files of
\* the group pending and a group of the listing not evaluated yet
C11_Witness ==
  \E r \in RunIds :
    /\ ret[r].err = "delete"
    /\ todo[r] # {}
    /\ OkKeys(r) # {}
    /\ Cardinality(OkKeys(r)) + 1 < Cardinality(ClassifiedDelete(r))
    /\ Cardinality(VisitedFiles(r)) < Cardinality(files[r])

\* every counter, size and time of st is zero and it has no per-group entry
AllZero(st) ==
  /\ st.TotalFiles = 0 /\ st.DeletedFiles = 0 /\ st.RetainedFiles = 0
  /\ st.DeletedSize = 0 /\ st.RetainedSize = 0
  /\ st.OldestRetained = ZeroTime /\ st.NewestRetained = ZeroTime
  /\ DOMAIN st.DatabaseStats = {}

\* C13: with the policy disabled a run makes no List call and no Delete call,
\* classifies nothing and leaves the store alone, and it returns no error and
\* stats that are all zero with no per-group entry, whatever the thresholds,
\* the bucket and the dry-run flag are.
C13_DisabledPolicyDoesNothing ==
  \A r \in RunIds :
    ~cfg.Enabled =>
      /\ listCalls[r] = <<>>
      /\ calls[r] = <<>>
      /\ Groups(r) = {}
      /\ store = DOMAIN objects
      /\ Returned(r) =>
           /\ ret[r].err = Nil
           /\ ret[r].stats # NilStats
           /\ AllZero(Deref(ret[r].stats))

\* a live run returned under a disabled policy with both thresholds positive
\* and a bucket with several files
C13_Witness ==
  \E r \in RunIds :
    /\ ~cfg.Enabled /\ Returned(r) /\ ~dryRun[r]
    /\ cfg.MaxAgeDays > 0 /\ cfg.MaxCount > 0
    /\ Cardinality(store) > cfg.MaxCount
    /\ \E k \in store : objects[k].CreatedAt < clock - cfg.MaxAgeDays

\* C14: a run whose List call failed has returned a non-nil error and nil
\* stats; it made no other List call, classified nothing and made no Delete
\* call.
C14_ListFailureReturnsAtOnce ==
  \A r \in RunIds :
    (\E i \in DOMAIN listCalls[r] : ~listCalls[r][i]) =>
      /\ listCalls[r] = <<FALSE>>
      /\ Returned(r)
      /\ ret[r].err # Nil
      /\ ret[r].stats = NilStats
      /\ Groups(r) = {}
      /\ calls[r] = <<>>
      /\ store = DOMAIN objects

\* the List call of a live run failed on a bucket holding files that the
\* enabled rules would delete
C14_Witness ==
  \E r \in RunIds :
    /\ listCalls[r] = <<FALSE>> /\ ~dryRun[r]
    /\ cfg.MaxCount > 0
    /\ Cardinality(store) > cfg.MaxCount + 1

\* C19: a run whose List call returned no file has returned no error and
\* stats that are all zero with no per-group entry, and it made no Delete
\* call, in dry-run mode and in live mode.
C19_EmptyListing ==
  \A r \in RunIds :
    (listCalls[r] = <<TRUE>> /\ files[r] = {}) =>
      /\ Returned(r)
      /\ ret[r].err = Nil
      /\ ret[r].stats # NilStats
      /\ AllZero(Deref(ret[r].stats))
      /\ Groups(r) = {}
      /\ calls[r] = <<>>

\* a live run with both rules enabled listed an empty bucket
C19_Witness ==
  \E r \in RunIds :
    /\ listCalls[r] = <<TRUE>> /\ files[r] = {}
    /\ ~dryRun[r] /\ cfg.MaxAgeDays > 0 /\ cfg.MaxCount > 0

\* the earliest and the latest CreatedAt of a set of keys, the zero time for
\* the empty set
CreatedAts(K) == {objects[k].CreatedAt : k \in K}
Earliest(K) ==
  LET T == CreatedAts(K)
  IN IF T = {} THEN ZeroTime ELSE CHOOSE t \in T : \A u \in T : t <= u
Latest(K) ==
  LET T == CreatedAts(K)
  IN IF T = {} THEN ZeroTime ELSE CHOOSE t \in T : \A u \in T : t >= u

\* C17: in the stats being built and in the stats returned, oldestRetained and
\* newestRetained of every group are the earliest and the latest CreatedAt of
\* the files of the group classified Keep, the aggregate ones those of all
\* files classified Keep, and they are the zero time when no file is Keep.
C17_RetainedRange ==
  \A r \in RunIds :
    /\ \A g \in Groups(r) :
         /\ stats[r].DatabaseStats[g].OldestRetained = Earliest(KeepSet(r, g))
         /\ stats[r].DatabaseStats[g].NewestRetained = Latest(KeepSet(r, g))
    /\ stats[r].OldestRetained = Earliest(ClassifiedKeep(r))
    /\ stats[r].NewestRetained = Latest(ClassifiedKeep(r))
    /\ (Returned(r) /\ ret[r].stats # NilStats)
         => Deref(ret[r].stats) = stats[r]

\* age rule only: of three files of distinct ages in one group the oldest is
\* Delete, so the group's oldestRetained is the time of the second oldest,
\* while the only file of the other group is Delete and its range is zero
C17_Witness ==
  \E r \in RunIds : \E g, h \in Groups(r) :
    /\ Succeeded(r) /\ cfg.MaxAgeDays > 0 /\ cfg.MaxCount <= 0
    /\ Cardinality(CreatedAts({f.Key : f \in GroupFiles(r, g)})) = 3
    /\ Cardinality(DeleteSet(r, g)) = 1
    /\ Deref(ret[r].stats).DatabaseStats[g].OldestRetained
         > Earliest({f.Key : f \in GroupFiles(r, g)})
    /\ KeepSet(r, h) = {} /\ DeleteSet(r, h) # {}
    /\ IsZero(Deref(ret[r].stats).DatabaseStats[h].OldestRetained)
    /\ ~IsZero(Deref(ret[r].stats).OldestRetained)

\* C18: with max_count >= 1, whatever max_age_days is, the first file of the
\* sorted group, which no file of the group is more recent than, is Keep and
\* not Delete, no Delete call names it and it stays in the store; the group
\* keeps a file, and the file of a single-file group is never removed.
C18_NewestIsKept ==
  \A r \in RunIds : \A g \in Groups(r) :
    cfg.MaxCount >= 1 =>
      LET newest == iter[r][g].files[1]
      IN /\ \A f \in GroupFiles(r, g) : f.CreatedAt <= newest.CreatedAt
         /\ newest.Key \in KeepSet(r, g)
         /\ newest.Key \notin DeleteSet(r, g)
         /\ newest.Key \notin CallKeys(r)
         /\ newest.Key \in store
         /\ Cardinality(GroupFiles(r, g)) = 1 => DeleteSet(r, g) = {}

\* both rules enabled with max_count = 1: a live run succeeded, every file is
\* older than the cutoff, one group holds a single file and the other group
\* lost files
C18_Witness ==
  \E r \in RunIds : \E g, h \in Groups(r) :
    /\ Succeeded(r) /\ ~dryRun[r]
    /\ cfg.MaxCount = 1 /\ cfg.MaxAgeDays > 0
    /\ \A f \in files[r] : f.CreatedAt < Cutoff(r, Dir(f.Key))
    /\ Cardinality(GroupFiles(r, g)) = 1
    /\ Cardinality(GroupFiles(r, h)) > 1 /\ OkKeys(r) # {}

\* C15: two evaluations of the same snapshot under the same policy that read
\* the same time for a group classify the files of the group alike, and when
\* both have returned with the same times for every group their stats are
\* equal, whatever CreatedAt the files have and whatever order they come in.
C15_SameSnapshotSameResult ==
  \A q, r \in RunIds :
    SameSnapshot(q, r) =>
      /\ \A g \in Groups(q) \cap Groups(r) :
           SameTime(q, r, g) =>
             /\ KeepSet(q, g) = KeepSet(r, g)
             /\ DeleteSet(q, g) = DeleteSet(r, g)
      /\ (/\ Succeeded(q) /\ Succeeded(r)
          /\ \A g \in Groups(q) : SameTime(q, r, g))
           => ret[q].stats = ret[r].stats

\* C12: a dry run and a live run that both returned without error, having
\* listed the same snapshot under the same policy, read the same time and
\* sorted the files alike for every group, returned equal stats, in aggregate
\* and for every group.
C12_DryRunStatsAreLiveStats ==
  \A q, r \in RunIds :
    (/\ dryRun[q] /\ ~dryRun[r]
     /\ Succeeded(q) /\ Succeeded(r)
     /\ SameSnapshot(q, r)
     /\ \A g \in Groups(q) : SameTime(q, r, g) /\ SameOrder(q, r, g))
      => /\ ret[q].stats = ret[r].stats
         /\ \A g \in Groups(q) :
              Deref(ret[q].stats).DatabaseStats[g]
                = Deref(ret[r].stats).DatabaseStats[g]

\* a dry run and then a live run succeeded on the same snapshot of two groups
\* with the same times and orders; the live run removed several files and
\* kept others
C12_Witness ==
  \E q, r \in RunIds :
    /\ dryRun[q] /\ ~dryRun[r]
    /\ Succeeded(q) /\ Succeeded(r)
    /\ SameSnapshot(q, r)
    /\ \A g \in Groups(q) : SameTime(q, r, g) /\ SameOrder(q, r, g)
    /\ Cardinality(Groups(r)) > 1
    /\ Cardinality(OkKeys(r)) > 1
    /\ Deref(ret[r].stats).RetainedFiles > 0
    /\ cfg.MaxAgeDays > 0

\* a key with its final path segment stripped
Stripped(key) == SubSeq(key, 1, Len(key) - 1)
\* what the rules make of the files fs of one group alone, sorted newest
\* first, at time now: the positions that are Keep and those that are Delete
OwnKeep(fs, rules, now) ==
  {fs[i].Key : i \in {j \in DOMAIN fs :
     IF rules.MaxCount > 0 THEN j <= rules.MaxCount
     ELSE rules.MaxAgeDays > 0 /\ fs[j].CreatedAt >= now - rules.MaxAgeDays}}
OwnDelete(fs, rules, now) ==
  {fs[i].Key : i \in {j \in DOMAIN fs :
     IF rules.MaxCount > 0 THEN j > rules.MaxCount
     ELSE rules.MaxAgeDays > 0 /\ fs[j].CreatedAt < now - rules.MaxAgeDays}}
FilesOf(K) == {objects[k] : k \in K}

C20_CancelAbortsDeletions ==
  /\ [][\A r \in RunIds : ctxDone[r] =>
          /\ store' = store
          /\ \A i \in DOMAIN calls'[r] :
               calls'[r][i][2] => i \in OkCalls(r)]_vars
  /\ [](\A r \in RunIds :
          (/\ ctxDone[r] /\ ~dryRun[r] /\ Returned(r)
           /\ ClassifiedDelete(r) \cap store # {})
            => /\ ret[r].err = "delete"
               /\ ret[r].stats # NilStats
               /\ FailedCalls(r) = {Len(calls[r])})

\* the context was cancelled after a live run had removed a file, with files
\* of the group pending and a group not evaluated yet, and the run returned
C20_Witness ==
  \E r \in RunIds :
    /\ ctxDone[r] /\ ~dryRun[r] /\ Returned(r)
    /\ OkKeys(r) # {}
    /\ Cardinality(pending[r]) > 1
    /\ todo[r] # {}
    /\ ret[r].err = "delete"

\* ------------------------------------------------------------------- C22
\* C22: there is no retry.  Within one run a Delete call is issued at most
\* once per key, a failed call is the last call of the run (the key is never
\* tried again), and the number of Delete calls never exceeds the number of
\* objects classified Delete.
C22_NoRetry ==
  \A r \in RunIds :
    /\ \A i, j \in DOMAIN calls[r] :
         calls[r][i][1] = calls[r][j][1] => i = j
    /\ \A i \in FailedCalls(r) : i = Len(calls[r])
    /\ Len(calls[r]) <= Cardinality(ClassifiedDelete(r))

\* a live run that removed one object, failed on a second one and returned
\* while a third object classified Delete was never tried
C22_Witness ==
  /\ pc[1] = "done"
  /\ Len(calls[1]) = 2
  /\ calls[1][1][2]
  /\ ~calls[1][2][2]
  /\ Cardinality(ClassifiedDelete(1)) > 2

\* ------------------------------------------------------------------- C25
\* C25: after a live run that returned without error, every object the run
\* classified Delete is gone from the store, every object it classified Keep
\* is still there, and the number of objects removed equals the DeletedFiles
\* of the returned stats.
C25_LiveSuccessRemovesDeleteSet ==
  \A r \in RunIds :
    (Succeeded(r) /\ ~dryRun[r]) =>
      /\ ClassifiedDelete(r) \cap store = {}
      /\ ClassifiedKeep(r) \subseteq store
      /\ Cardinality(Removed) = Deref(ret[r].stats).DeletedFiles

\* a live run returned without error after removing objects of two groups
\* and keeping others
C25_Witness ==
  /\ Succeeded(1)
  /\ ~dryRun[1]
  /\ Cardinality({Dir(k) : k \in Removed}) > 1
  /\ ClassifiedKeep(1) # {}
  /\ Cardinality(Removed) = Len(calls[1])

\* ------------------------------------------------------------------- C26
\* C26: the classification of a group is monotone in age.  Whatever the
\* policy, no object is kept while a newer object of the same group is
\* deleted: every Keep object has a CreatedAt at or after the CreatedAt of
\* every Delete object of its group.
C26_KeepIsNeverOlderThanDelete ==
  \A r \in RunIds : \A g \in Groups(r) :
    \A k \in KeepSet(r, g) : \A d \in DeleteSet(r, g) :
      ~Before(objects[k].CreatedAt, objects[d].CreatedAt)

\* both rules are enabled and a group has a Keep object older than the
\* cutoff, a Delete object, and a second Keep object newer than both
C26_Witness ==
  \E g \in Groups(1) :
    /\ AgeRuleEnabled(cfg) /\ CountRuleEnabled(cfg)
    /\ \E k \in KeepSet(1, g) : \E d \in DeleteSet(1, g) :
         /\ Before(objects[k].CreatedAt, Cutoff(1, g))
         /\ ~After(objects[k].CreatedAt, objects[d].CreatedAt)
    /\ \E k \in KeepSet(1, g) : \E d \in DeleteSet(1, g) :
         After(objects[k].CreatedAt, objects[d].CreatedAt)

\* ------------------------------------------------------------------- C27
\* the sum of the values of function fn over the set S of its arguments
RECURSIVE SumOver(_, _)
SumOver(fn, S) ==
  IF S = {} THEN 0
  ELSE LET x == CHOOSE y \in S : TRUE
       IN fn[x] + SumOver(fn, S \ {x})

\* C27: when Execute returns without error the per-group map has exactly one
\* entry per group of the listing, each overall counter and size is the sum
\* of the per-group values, and the overall OldestRetained and NewestRetained
\* are the earliest and the latest of the per-group values over the groups
\* whose Keep set is not empty.
C27_AggregateIsSumOfGroups ==
  \A r \in RunIds :
    Succeeded(r) =>
      LET st == Deref(ret[r].stats)
          ds == st.DatabaseStats
          G == DOMAIN ds
          W == {g \in G : KeepSet(r, g) # {}}
      IN /\ G = {Dir(f.Key) : f \in files[r]}
         /\ st.TotalFiles = SumOver([g \in G |-> ds[g].TotalFiles], G)
         /\ st.DeletedFiles = SumOver([g \in G |-> ds[g].DeletedFiles], G)
         /\ st.RetainedFiles = SumOver([g \in G |-> ds[g].RetainedFiles], G)
         /\ st.DeletedSize = SumOver([g \in G |-> ds[g].DeletedSize], G)
         /\ st.RetainedSize = SumOver([g \in G |-> ds[g].RetainedSize], G)
         /\ W # {} =>
              /\ \E g \in W : st.OldestRetained = ds[g].OldestRetained
              /\ \A g \in W : ~After(st.OldestRetained, ds[g].OldestRetained)
              /\ \E g \in W : st.NewestRetained = ds[g].NewestRetained
              /\ \A g \in W : ~Before(st.NewestRetained, ds[g].NewestRetained)

\* a run returned without error over two groups that both keep files, one of
\* them deleting some, and whose retained ranges differ
C27_Witness ==
  /\ Succeeded(1)
  /\ LET ds == Deref(ret[1].stats).DatabaseStats
     IN /\ Cardinality(DOMAIN ds) = 2
        /\ \A g \in DOMAIN ds : ds[g].RetainedFiles > 0
        /\ \E g \in DOMAIN ds : ds[g].DeletedFiles > 0
        /\ \E g, h \in DOMAIN ds :
             /\ Before(ds[g].OldestRetained, ds[h].OldestRetained)
             /\ Before(ds[g].NewestRetained, ds[h].NewestRetained)

\* ------------------------------------------------------- two live runs
\* two processes call Execute in live mode against the same bucket with the
\* same policy; their List and Delete calls interleave in any order.

\* the backups of one folder were made on different days
DistinctTimes ==
  \A k1, k2 \in DOMAIN objects :
    (Dir(k1) = Dir(k2) /\ objects[k1].CreatedAt = objects[k2].CreatedAt)
      => k1 = k2

\* both runs are live, the policy has a positive max_count, and both run
\* within the last day time.Now() can return
InitBoth ==
  /\ InitRuns({1, 2}, MaxTime + MaxTick)
  /\ ~dryRun[1] /\ ~dryRun[2]
  /\ CountRuleEnabled(cfg)
  /\ DistinctTimes

SpecBoth == InitBoth /\ [][Next]_vars

\* ------------------------------------------------------------------- C28
\* the keys of folder g the bucket held at the start, and the n newest of a
\* set K of keys
InitialGroup(g) == {k \in DOMAIN objects : Dir(k) = g}
NewestKeys(K, n) ==
  {k \in K :
     Cardinality({j \in K :
                    After(objects[j].CreatedAt, objects[k].CreatedAt)}) < n}

\* C28: two live runs with the same policy (max_count = N > 0) interleaved in
\* any way against one bucket, no uploads, distinct CreatedAt within each
\* folder.  In every reachable state each folder still holds the min(M, N)
\* newest of the M objects it had at the start, whichever run lists or
\* deletes first and whatever a Delete call on a removed key returns.
C28_ConcurrentRunsKeepNewest ==
  (CountRuleEnabled(cfg) /\ DistinctTimes /\ ~dryRun[1] /\ ~dryRun[2]) =>
    \A g \in {Dir(k) : k \in DOMAIN objects} :
      LET newest == NewestKeys(InitialGroup(g), cfg.MaxCount)
      IN /\ Cardinality(newest) =
              Min(Cardinality(InitialGroup(g)), cfg.MaxCount)
         /\ newest \subseteq store

\* run 2 listed the bucket after run 1 had removed an object, run 1 removed
\* a second one, and the Delete call of run 2 for that same key failed
C28_Witness ==
  /\ pc[1] = "done" /\ pc[2] = "done"
  /\ files[2] # files[1]
  /\ files[2] # {}
  /\ Cardinality(OkKeys(1)) > 1
  /\ \E i \in FailedCalls(2) : calls[2][i][1] \in OkKeys(1)

\* ------------------------------------------------------------------- C21
\* the keys whose Delete call failed in run r
FailedKeys(r) == {calls[r][i][1] : i \in FailedCalls(r)}

\* C21: for a fixed listing, policy and set of keys whose Delete call fails,
\* the groups are processed in a fixed order, so two executions that abort
\* on a failed Delete have removed the same objects and return the same
\* stats with the error.  (Two runs that listed the same snapshot and whose
\* Delete outcomes agree with one set of failing keys are two such
\* executions: after the listing a run never reads the bucket again.)
C21_AbortIsDeterministic ==
  (/\ SameSnapshot(1, 2)
   /\ Returned(1) /\ ret[1].err = "delete"
   /\ Returned(2) /\ ret[2].err = "delete"
   /\ (FailedKeys(1) \cup FailedKeys(2)) \cap (OkKeys(1) \cup OkKeys(2)) = {})
    => /\ OkKeys(1) = OkKeys(2)
       /\ ret[1].stats = ret[2].stats

\* ======================================================= the backup command
\* A string is the sequence of its pieces: "/" or a piece without "/".
Slash == "/"

\* database configurations (backup.Config): name and type
Databases ==
  {[Name |-> <<>>, Type |-> "postgresql"],
   [Name |-> <<"a">>, Type |-> "mysql"],
   [Name |-> <<"b">>, Type |-> "influxdb"],
   [Name |-> <<"a", Slash, "b">>, Type |-> "mysql"]}

MaxDbs == 2       \* db_configs holds at most MaxDbs databases
KeySlack == 2     \* a configured key is at most KeySlack characters off
KeyLength == 32   \* the key length NewEncryptor asks for, in bytes

\* the number of base64 characters that encode KeyLength bytes
FullChars == (KeyLength * 8 + 5) \div 6

\* A configured key is described by what base64 decoding looks at: its
\* number of alphabet characters, its number of trailing "=" and whether it
\* is free of any other character.  The empty key is one of them.
Base64Keys ==
  [chars : (FullChars - KeySlack)..(FullChars + KeySlack),
   pad : 0..2, clean : BOOLEAN]
  \cup {[chars |-> 0, pad |-> 0, clean |-> TRUE]}

\* the time.Now() part of a backup file name
Stamps == {"_t1", "_t2"}

\* base64.StdEncoding.DecodeString: padded encoding, four characters for
\* three bytes; the decoded bytes are represented by their number
DecodeString(key) ==
  IF /\ key.clean
     /\ \/ key.chars % 4 = 0 /\ key.pad = 0
        \/ key.chars % 4 = 2 /\ key.pad = 2
        \/ key.chars % 4 = 3 /\ key.pad = 1
  THEN [len |-> (key.chars * 6) \div 8, err |-> Nil]
  ELSE [len |-> 0, err |-> "corrupt input"]

\* no *Encryptor
NoEncryptor == <<>>

\* faulty variant: the length of the decoded key is not verified
NewEncryptorAnyLength(config) ==
  IF ~config.Enabled
  THEN [enc |-> <<[config |-> config, key |-> 0]>>, err |-> Nil]
  ELSE LET key == DecodeString(config.Key)
       IN IF key.err # Nil
          THEN [enc |-> NoEncryptor, err |-> "decoding"]
          ELSE [enc |-> <<[config |-> config, key |-> key.len]>>,
                err |-> Nil]

\* encryptor.go lines 25-58
NewEncryptor(config) ==
  IF ~config.Enabled
  THEN [enc |-> <<[config |-> config, key |-> 0]>>, err |-> Nil]
  ELSE LET key == DecodeString(config.Key)
       IN IF key.err # Nil
          THEN [enc |-> NoEncryptor, err |-> "decoding"]
          ELSE IF key.len # KeyLength
          THEN [enc |-> NoEncryptor, err |-> "key length"]
          ELSE [enc |-> <<[config |-> config, key |-> key.len]>>,
                err |-> Nil]

\* command.go lines 87-92: "<name>_<time>" and the extension of the type
BackupFileName(db, stamp) ==
  db.Name \o <<stamp>> \o
    <<IF db.Type = "influxdb" THEN ".influx" ELSE ".sql">>

\* faulty variant: the key is the file name alone
UploadKeyFlat(req) == req.FileName

\* upload.go line 55: fmt.Sprintf("%s/%s", req.FolderName, req.FileName)
UploadKey(req) == req.FolderName \o <<Slash>> \o req.FileName

\* path.Split: the part of a path up to and including its last "/"
SplitDir(p) ==
  LET slashes == {i \in DOMAIN p : p[i] = Slash}
  IN IF slashes = {} THEN <<>>
     ELSE SubSeq(p, 1, CHOOSE i \in slashes : \A j \in slashes : j <= i)

\* path.Clean on a path without "." and ".." elements: runs of "/" become
\* one, a trailing "/" is dropped unless the path is the root, and the empty
\* path becomes "."
RECURSIVE Collapse(_)
Collapse(p) ==
  IF Len(p) < 2 THEN p
  ELSE IF p[1] = Slash /\ p[2] = Slash THEN Collapse(Tail(p))
  ELSE <<p[1]>> \o Collapse(Tail(p))

Clean(p) ==
  LET c == Collapse(p)
  IN IF c = <<>> THEN <<".">>
     ELSE IF c = <<Slash>> THEN c
     ELSE IF c[Len(c)] = Slash THEN SubSeq(c, 1, Len(c) - 1)
     ELSE c

\* path.Dir(key) as Execute derives the group of a listed key
PathDir(key) == Clean(SplitDir(key))

\* the variables of the retention command
dvars == <<objects, store, clock, cfg, dryRun, pc, files, todo, iter,
           pending, stats, ret, calls, listCalls, ctxDone>>

\* the retention command is not run
DeleteIdle ==
  /\ objects = <<>>
  /\ store = {}
  /\ clock = ZeroTime
  /\ cfg = [Enabled |-> FALSE, MaxAgeDays |-> 0, MaxCount |-> 0]
  /\ dryRun = [r \in RunIds |-> FALSE]
  /\ pc = [r \in RunIds |-> "idle"]
  /\ files = [r \in RunIds |-> {}]
  /\ todo = [r \in RunIds |-> {}]
  /\ iter = [r \in RunIds |-> EmptyMap]
  /\ pending = [r \in RunIds |-> {}]
  /\ stats = [r \in RunIds |-> ZeroStats]
  /\ ret = [r \in RunIds |-> [stats |-> NilStats, err |-> Nil]]
  /\ calls = [r \in RunIds |-> <<>>]
  /\ listCalls = [r \in RunIds |-> <<>>]
  /\ ctxDone = [r \in RunIds |-> FALSE]

\* the sequences of at most n elements of S
SeqsUpTo(S, n) == UNION {[1..m -> S] : m \in 0..n}

\* backup.go lines 20-38: the configuration is loaded, nothing is done yet
InitBackup ==
  /\ DeleteIdle
  /\ appConfig \in [Encryption : [Enabled : BOOLEAN, Key : Base64Keys],
                    DBConfigs : SeqsUpTo(Databases, MaxDbs),
                    Upload : [Enabled : BOOLEAN]]
  /\ bpc = "start"
  /\ encryptor = NoEncryptor
  /\ attempted = <<>>
  /\ uploadRequests = <<>>
  /\ uploadCalls = <<>>
  /\ berr = Nil

\* backup.go lines 41-46: the encryptor is created, or the command returns
InitEncryptor ==
  /\ bpc = "start"
  /\ LET r == NewEncryptor(appConfig.Encryption)
     IN /\ encryptor' = r.enc
        /\ IF r.err # Nil
           THEN bpc' = "done" /\ berr' = "encryptor"
           ELSE bpc' = "backup" /\ berr' = berr
  /\ UNCHANGED <<appConfig, attempted, uploadRequests, uploadCalls, dvars>>

\* what can go wrong with one database: the dump (backup), resolvePath, and
\* EncryptFile, which does nothing and cannot fail when encryption is off
Failures(enc) ==
  {"dump", "path"} \cup (IF enc.config.Enabled THEN {"encrypt"} ELSE {})

\* faulty variant: a database that fails is skipped and the loop goes on
BackupFailsSkips(failure) ==
  /\ bpc = "backup"
  /\ Len(attempted) < Len(appConfig.DBConfigs)
  /\ failure \in Failures(encryptor[1])
  /\ attempted' =
       Append(attempted, <<appConfig.DBConfigs[Len(attempted) + 1], failure>>)
  /\ UNCHANGED <<appConfig, bpc, encryptor, uploadRequests, uploadCalls,
                 berr, dvars>>

\* Backup lines 25-68, one iteration that ends in an error: Backup returns
\* (nil, err) and the command returns
BackupFails(failure) ==
  /\ bpc = "backup"
  /\ Len(attempted) < Len(appConfig.DBConfigs)
  /\ failure \in Failures(encryptor[1])
  /\ attempted' =
       Append(attempted, <<appConfig.DBConfigs[Len(attempted) + 1], failure>>)
  /\ uploadRequests' = <<>>
  /\ bpc' = "done"
  /\ berr' = "backup"
  /\ UNCHANGED <<appConfig, encryptor, uploadCalls, dvars>>

\* Backup lines 25-98, one iteration without error: the database is dumped,
\* the file encrypted if enabled, and an upload request added
BackupSucceeds(stamp) ==
  /\ bpc = "backup"
  /\ Len(attempted) < Len(appConfig.DBConfigs)
  /\ LET db == appConfig.DBConfigs[Len(attempted) + 1]
         backupFileName == BackupFileName(db, stamp)
         uploadFileName == IF encryptor[1].config.Enabled
                           THEN backupFileName \o <<".enc">>
                           ELSE backupFileName
     IN /\ attempted' = Append(attempted, <<db, "ok">>)
        /\ uploadRequests' =
             Append(uploadRequests,
                    [FolderName |-> db.Name, FileName |-> uploadFileName])
  /\ UNCHANGED <<appConfig, bpc, encryptor, uploadCalls, berr, dvars>>

\* Backup line 101 and backup.go lines 51-58, 98-103: Backup returns the
\* requests; without upload.enabled the command is over
BackupReturns ==
  /\ bpc = "backup"
  /\ Len(attempted) = Len(appConfig.DBConfigs)
  /\ bpc' = IF appConfig.Upload.Enabled THEN "upload" ELSE "done"
  /\ UNCHANGED <<appConfig, encryptor, attempted, uploadRequests,
                 uploadCalls, berr, dvars>>

\* backup.go lines 60-89: s3.New or the opening of a file fails before any
\* upload
PrepareUploadFails ==
  /\ bpc = "upload"
  /\ uploadCalls = <<>>
  /\ bpc' = "done"
  /\ berr' = "prepare upload"
  /\ UNCHANGED <<appConfig, encryptor, attempted, uploadRequests,
                 uploadCalls, dvars>>

\* upload.go lines 54-71: one request of UploadMultiple is uploaded
UploadSucceeds ==
  /\ bpc = "upload"
  /\ Len(uploadCalls) < Len(uploadRequests)
  /\ uploadCalls' =
       Append(uploadCalls,
              <<UploadKey(uploadRequests[Len(uploadCalls) + 1]), TRUE>>)
  /\ UNCHANGED <<appConfig, bpc, encryptor, attempted, uploadRequests,
                 berr, dvars>>

\* upload.go lines 61-67 and backup.go 93-96: one upload fails,
\* UploadMultiple and the command return the error
UploadFails ==
  /\ bpc = "upload"
  /\ Len(uploadCalls) < Len(uploadRequests)
  /\ uploadCalls' =
       Append(uploadCalls,
              <<UploadKey(uploadRequests[Len(uploadCalls) + 1]), FALSE>>)
  /\ bpc' = "done"
  /\ berr' = "upload"
  /\ UNCHANGED <<appConfig, encryptor, attempted, uploadRequests, dvars>>

\* upload.go lines 73-76 and backup.go 97-103: every request is uploaded
UploadReturns ==
  /\ bpc = "upload"
  /\ Len(uploadCalls) = Len(uploadRequests)
  /\ bpc' = "done"
  /\ UNCHANGED <<appConfig, encryptor, attempted, uploadRequests,
                 uploadCalls, berr, dvars>>

NextBackup ==
  \/ InitEncryptor
  \/ \E failure \in {"dump", "path", "encrypt"} : BackupFails(failure)
  \/ \E stamp \in Stamps : BackupSucceeds(stamp)
  \/ BackupReturns
  \/ PrepareUploadFails
  \/ UploadSucceeds
  \/ UploadFails
  \/ UploadReturns

\* the backup command, run once
SpecBackup == InitBackup /\ [][NextBackup]_vars

\* ------------------------------------------------------------------- C23
\* the configured key decodes from base64 to exactly KeyLength bytes
KeyIsGood ==
  LET key == DecodeString(appConfig.Encryption.Key)
  IN key.err = Nil /\ key.len = KeyLength

\* C23: with encryption enabled NewEncryptor succeeds only if the configured
\* key decodes from base64 to exactly 32 bytes.  For any other decoded
\* length, or a key that does not decode, it returns an error and no
\* encryptor, and the backup command returns before any database is dumped
\* and before anything is uploaded.
C23_EncryptorNeedsA32ByteKey ==
  (appConfig.Encryption.Enabled /\ bpc \notin {"idle", "start"}) =>
    /\ encryptor # NoEncryptor <=> KeyIsGood
    /\ ~KeyIsGood =>
         /\ bpc = "done"
         /\ berr = "encryptor"
         /\ attempted = <<>>
         /\ uploadRequests = <<>>
         /\ uploadCalls = <<>>

\* the command returned because the key, valid base64, decodes to one byte
\* more than asked for, with a database to back up and the upload enabled
C23_Witness ==
  /\ appConfig.Encryption.Enabled
  /\ DecodeString(appConfig.Encryption.Key) =
       [len |-> KeyLength + 1, err |-> Nil]
  /\ appConfig.DBConfigs # <<>>
  /\ appConfig.Upload.Enabled
  /\ bpc = "done"
  /\ berr = "encryptor"

\* ------------------------------------------------------------------- C29
\* C29: nothing is uploaded unless every configured database was dumped (and
\* encrypted, if enabled) without error.  At the first database that fails,
\* Backup returns an error and no results, the databases after it are not
\* attempted, and no upload call is made even for the databases already
\* dumped.  No upload call is made either when upload.enabled is false.
C29_UploadOnlyAfterEveryDump ==
  /\ \A i \in DOMAIN attempted :
       /\ attempted[i][1] = appConfig.DBConfigs[i]
       /\ attempted[i][2] # "ok" =>
            /\ i = Len(attempted)
            /\ bpc = "done"
            /\ berr = "backup"
            /\ uploadRequests = <<>>
            /\ uploadCalls = <<>>
  /\ uploadCalls # <<>> =>
       /\ Len(attempted) = Len(appConfig.DBConfigs)
       /\ \A i \in DOMAIN attempted : attempted[i][2] = "ok"
       /\ appConfig.Upload.Enabled

\* with the upload enabled, the first database was dumped and encrypted, the
\* encryption of the second one failed and the command returned
C29_Witness ==
  /\ appConfig.Upload.Enabled
  /\ Len(attempted) = 2
  /\ attempted[1][2] = "ok"
  /\ attempted[2][2] = "encrypt"
  /\ bpc = "done"
  /\ uploadCalls = <<>>

\* ------------------------------------------------------------------- C30
\* the database of the i-th upload call and the key the call was made with
UploadedDb(i) == appConfig.DBConfigs[i]
UploadedKey(i) == uploadCalls[i][1]
SlashFree(name) == \A i \in DOMAIN name : name[i] # Slash

\* C30: every uploaded object has the key "<database name>/<file
\* name>", and for a database name without "/" the group Execute derives
\* from the key is the database name, so that the backups of one database
\* fall into one group and databases with different names never share one.
C30_GroupIsDatabaseName ==
  \A i \in DOMAIN uploadCalls :
    /\ UploadedKey(i) =
         UploadedDb(i).Name \o <<Slash>> \o uploadRequests[i].FileName
    /\ SlashFree(UploadedDb(i).Name) =>
         /\ PathDir(UploadedKey(i)) = UploadedDb(i).Name
         /\ \A j \in DOMAIN uploadCalls :
              SlashFree(UploadedDb(j).Name) =>
                (PathDir(UploadedKey(j)) = PathDir(UploadedKey(i))
                   <=> UploadedDb(j).Name = UploadedDb(i).Name)

\* C30 (amended): every uploaded object has the key "<database name>/<file
\* name>", and for database names that are not empty and hold no "/" the
\* group Execute derives from the key is the database name: the backups of
\* one such database fall into one group and two such databases with
\* different names never share one.
C30_GroupIsNonEmptyDatabaseName ==
  \A i \in DOMAIN uploadCalls :
    /\ UploadedKey(i) =
         UploadedDb(i).Name \o <<Slash>> \o uploadRequests[i].FileName
    /\ (UploadedDb(i).Name # <<>> /\ SlashFree(UploadedDb(i).Name)) =>
         /\ PathDir(UploadedKey(i)) = UploadedDb(i).Name
         /\ \A j \in DOMAIN uploadCalls :
              (UploadedDb(j).Name # <<>> /\ SlashFree(UploadedDb(j).Name)) =>
                (PathDir(UploadedKey(j)) = PathDir(UploadedKey(i))
                   <=> UploadedDb(j).Name = UploadedDb(i).Name)

\* the encrypted backups of two databases with different names, neither
\* empty nor holding "/", were uploaded
C30_Witness ==
  /\ Len(uploadCalls) = 2
  /\ uploadCalls[1][2] /\ uploadCalls[2][2]
  /\ appConfig.Encryption.Enabled
  /\ UploadedDb(1).Name # UploadedDb(2).Name
  /\ \A i \in DOMAIN uploadCalls :
       UploadedDb(i).Name # <<>> /\ SlashFree(UploadedDb(i).Name)

\* ============================== the earlier variant of Execute (lines 49-200)
\* It applies the rules to the whole listing, not to each folder.  Its
\* Enabled test and its List error are those of ExecuteDisabled and
\* ListFails.

\* the one entry of iter under which the earlier variant is recorded
WholeBucket == <<"">>

\* the files of a slice, by key
SliceMap(fs) ==
  [k \in {fs[i].Key : i \in DOMAIN fs} |->
     CHOOSE f \in {fs[i] : i \in DOMAIN fs} : f.Key = k]

\* lines 76-91: the count-based rule on the newest-first slice fs
CountRuleWhole(fs, rules) ==
  IF rules.MaxCount > 0
  THEN IF Len(fs) > rules.MaxCount
       THEN [filesToDelete |-> SubSeq(fs, rules.MaxCount + 1, Len(fs)),
             filesToRetain |-> SubSeq(fs, 1, rules.MaxCount)]
       ELSE [filesToDelete |-> <<>>, filesToRetain |-> fs]
  ELSE [filesToDelete |-> <<>>, filesToRetain |-> <<>>]

\* lines 93-139: the time-based rule applied to the outcome m of the count
\* rule
AgeRuleWhole(m, fs, rules, now) ==
  IF rules.MaxAgeDays > 0
  THEN LET cutoffTime == AddDate(now, -rules.MaxAgeDays)
           filesToCheck == IF Len(m.filesToDelete) = 0
                           THEN fs ELSE m.filesToDelete
           timeBasedDelete ==
             SelectSeq(filesToCheck,
                       LAMBDA f : Before(f.CreatedAt, cutoffTime))
           timeBasedRetain ==
             SelectSeq(filesToCheck,
                       LAMBDA f : ~Before(f.CreatedAt, cutoffTime))
           timeBasedDeleteMap == {timeBasedDelete[i].Key :
                                    i \in DOMAIN timeBasedDelete}
       IN IF Len(m.filesToDelete) = 0
          THEN [filesToDelete |-> timeBasedDelete,
                filesToRetain |-> timeBasedRetain]
          ELSE [filesToDelete |->
                  SelectSeq(m.filesToDelete,
                            LAMBDA f : f.Key \in timeBasedDeleteMap),
                filesToRetain |->
                  m.filesToRetain \o
                    SelectSeq(m.filesToDelete,
                              LAMBDA f : f.Key \notin timeBasedDeleteMap)]
  ELSE m

\* lines 76-139
ClassifyWhole(fs, rules, now) ==
  AgeRuleWhole(CountRuleWhole(fs, rules), fs, rules, now)

\* lines 69 and 141-154
StatsWhole(fs, m) ==
  LET n == Len(m.filesToRetain)
  IN [ZeroStats EXCEPT
        !.TotalFiles = Len(fs),
        !.DeletedFiles = Len(m.filesToDelete),
        !.RetainedFiles = n,
        !.OldestRetained =
          IF n > 0 THEN m.filesToRetain[n].CreatedAt ELSE ZeroTime,
        !.NewestRetained =
          IF n > 0 THEN m.filesToRetain[1].CreatedAt ELSE ZeroTime,
        !.DeletedSize =
          SumSize({m.filesToDelete[i] : i \in DOMAIN m.filesToDelete}),
        !.RetainedSize =
          SumSize({m.filesToRetain[i] : i \in DOMAIN m.filesToRetain})]

\* lines 59-67: the List call succeeds; an empty listing returns at once
ListSucceedsWhole(r) ==
  /\ pc[r] = "start"
  /\ cfg.Enabled
  /\ RequestProceeds(ctxDone[r])
  /\ LET listing == {objects[k] : k \in store}
     IN /\ files' = [files EXCEPT ![r] = listing]
        /\ IF listing = {}
           THEN /\ pc' = [pc EXCEPT ![r] = "done"]
                /\ ret' = [ret EXCEPT ![r] =
                             [stats |-> Ptr(stats[r]), err |-> Nil]]
           ELSE /\ pc' = [pc EXCEPT ![r] = "whole"]
                /\ ret' = ret
  /\ listCalls' = [listCalls EXCEPT ![r] = Append(@, TRUE)]
  /\ UNCHANGED <<objects, store, clock, cfg, dryRun, todo, iter, pending,
                 stats, calls, ctxDone,
                 bvars>>

\* lines 69-177: the listing is sorted and classified and the stats are
\* computed; a dry run returns, a live run goes on to deleteFiles, which
\* returns at once when there is nothing to delete
EvaluateWhole(r) ==
  /\ pc[r] = "whole"
  /\ \E fs \in SortSlice(files[r]) :
     \E now \in TimeNow(cfg, clock) :
       LET m == ClassifyWhole(fs, cfg, now)
           st == StatsWhole(fs, m)
       IN /\ clock' = now
          /\ iter' = [iter EXCEPT ![r] =
                        (WholeBucket :>
                           [files |-> fs, now |-> now,
                            filesToDelete |-> SliceMap(m.filesToDelete),
                            filesToRetain |-> SliceMap(m.filesToRetain)])]
          /\ stats' = [stats EXCEPT ![r] = st]
          /\ IF dryRun[r] \/ Len(m.filesToDelete) = 0
             THEN /\ pending' = pending
                  /\ pc' = [pc EXCEPT ![r] = "done"]
                  /\ ret' = [ret EXCEPT ![r] =
                               [stats |-> Ptr(st), err |-> Nil]]
             ELSE /\ pending' = [pending EXCEPT ![r] =
                                   {m.filesToDelete[i] :
                                      i \in DOMAIN m.filesToDelete}]
                  /\ pc' = [pc EXCEPT ![r] = "deleting"]
                  /\ ret' = ret
  /\ UNCHANGED <<objects, store, cfg, dryRun, files, todo, calls,
                 listCalls, ctxDone,
                 bvars>>

\* the file deleteFiles comes to next: the slice keeps the order of the
\* sorted listing
NextToDelete(r) ==
  LET fs == iter[r][WholeBucket].files
      i == CHOOSE j \in DOMAIN fs :
             /\ fs[j] \in pending[r]
             /\ \A k \in DOMAIN fs : fs[k] \in pending[r] => j <= k
  IN fs[i]

\* lines 183-199 and 173-177: one Delete call succeeds; after the last one
\* Execute returns the stats
DeleteWholeSucceeds(r) ==
  /\ pc[r] = "deleting"
  /\ pending[r] # {}
  /\ RequestProceeds(ctxDone[r])
  /\ LET file == NextToDelete(r)
     IN /\ store' = store \ {file.Key}
        /\ calls' = [calls EXCEPT ![r] = Append(@, <<file.Key, TRUE>>)]
        /\ pending' = [pending EXCEPT ![r] = @ \ {file}]
        /\ IF pending[r] = {file}
           THEN /\ pc' = [pc EXCEPT ![r] = "done"]
                /\ ret' = [ret EXCEPT ![r] =
                             [stats |-> Ptr(stats[r]), err |-> Nil]]
           ELSE pc' = pc /\ ret' = ret
  /\ UNCHANGED <<objects, clock, cfg, dryRun, files, todo, iter, stats,
                 listCalls, ctxDone,
                 bvars>>

\* lines 189-194 and 173-175: one Delete call fails, Execute returns
DeleteWholeFails(r) ==
  /\ pc[r] = "deleting"
  /\ pending[r] # {}
  /\ calls' = [calls EXCEPT ![r] =
                 Append(@, <<NextToDelete(r).Key, FALSE>>)]
  /\ pc' = [pc EXCEPT ![r] = "done"]
  /\ ret' = [ret EXCEPT ![r] = [stats |-> Ptr(stats[r]), err |-> "delete"]]
  /\ UNCHANGED <<objects, store, clock, cfg, dryRun, files, todo, iter,
                 pending, stats, listCalls, ctxDone,
                 bvars>>

NextWhole ==
  \E r \in RunIds :
    \/ ExecuteDisabled(r)
    \/ ListFails(r)
    \/ ListSucceedsWhole(r)
    \/ EvaluateWhole(r)
    \/ DeleteWholeSucceeds(r)
    \/ DeleteWholeFails(r)

\* the earlier variant of Execute, called once
SpecWhole == Init /\ [][NextWhole]_vars

\* ------------------------------------------------------------------- C24
\* the objects the age rule alone and the count rule alone would delete from
\* the listing of run r: those older than the cutoff, and those beyond the
\* max_count newest
AgeDeleteSet(r) ==
  {f.Key : f \in {g \in files[r] :
                    Before(g.CreatedAt, Cutoff(r, WholeBucket))}}
CountDeleteSet(r) ==
  LET fs == iter[r][WholeBucket].files
  IN {fs[i].Key : i \in {j \in DOMAIN fs : j > cfg.MaxCount}}

\* C24: in the earlier whole-bucket variant of Execute, when both rules are
\* enabled the Delete set is the intersection of the age-based delete set
\* and the count-based delete set, for every listing size, listings of no
\* more than max_count objects included.
C24_DeleteIsIntersection ==
  \A r \in RunIds :
    (WholeBucket \in Groups(r) /\ cfg.MaxAgeDays > 0 /\ cfg.MaxCount > 0) =>
      DeleteSet(r, WholeBucket) = AgeDeleteSet(r) \cap CountDeleteSet(r)

============================================================================
